---- MODULE Spec2Model ----
(***************************************************************************)
(* SplitPdfHook (src/src/sdk/models/operations/partition.ts): the hook     *)
(* that splits a PDF partition request into one request per page, sends    *)
(* all but the last page in the background with async.parallelLimit, and   *)
(* merges the page responses in afterSuccess / afterError.                 *)
(*                                                                         *)
(* A top-level call c goes beforeRequest -> pipeline send -> afterSuccess  *)
(* or afterError.  Every await of the hooks that separates two accesses    *)
(* to the hook's maps is a separate step of the call.                      *)
(***************************************************************************)
EXTENDS Integers, Sequences, FiniteSets, TLC

\* ------------------------------------------------------------- bounds
MaxPages == 3
MaxPagesInFlight == 4
NumCalls == 2

\* ---------------------------------------------------- program constants
MAX_NUMBER_OF_PARALLEL_REQUESTS == 15
DefaultParallelLimit == 5

Calls == 1..NumCalls
OpIds == {"partition", "general"}

\* Values the user assigns to the static SplitPdfHook.parallelLimit: one of
\* the documented range 1..15, and integers outside of it.
ValidLimits == {1}
AnyLimits == ValidLimits \cup {16, 0, -1}

VARIABLES
  client,              \* #client is set (sdkInit has run)
  parallelLimit,       \* static SplitPdfHook.parallelLimit
  partitionResponses,  \* #partitionResponses: operation id -> array of slots
  partitionRequests,   \* #partitionRequests: operation id -> join handle
  calls,               \* the top-level calls: position, arguments, locals
  tasks,               \* per call, the state of its background tasks
  sent                 \* per call, the requests its tasks handed to the client

vars == <<client, parallelLimit, partitionResponses, partitionRequests,
          calls, tasks, sent>>

\* ------------------------------------------------------------ JSON values
Obj(id) == [t |-> "obj", id |-> id, items |-> <<>>]
Arr(items) == [t |-> "arr", id |-> <<>>, items |-> items]
\* A body that is not JSON text: Response.json() rejects on it.
NotJson == [t |-> "text", id |-> <<>>, items |-> <<>>]

IsJson(body) == body.t # "text"

\* The element array of page i of call c: two elements, the second one an
\* array itself, so that a flatten of more than one level shows.
PageBody(c, i) == Arr(<<Obj(<<c, i, 1>>), Arr(<<Obj(<<c, i, 2>>)>>)>>)
ErrorBody(c, i) == Obj(<<c, i, 0>>)

\* ---------------------------------------------------------------- requests
\* A file name is the sequence of its pieces, ".pdf" being one piece.
NoName == <<>>

\* The split_pdf_page form field: a string, or absent.
Absent == "<absent>"
SplitFlags == {"true", "false", Absent}

NoReq == [k |-> "none", split |-> Absent, file |-> FALSE, name |-> NoName,
          valid |-> FALSE, pages |-> <<>>, contentType |-> FALSE]

\* The request the pipeline built: a multipart form with a content-type
\* header, the split flag, and a file (or none) holding pages 1..n of a
\* document, or bytes that are no PDF.
OrigReq(flag, hasFile, name, valid, n) ==
  [k |-> "orig", split |-> flag, file |-> hasFile, name |-> name,
   valid |-> valid, pages |-> [i \in 1..n |-> i], contentType |-> TRUE]

\* The requests a call is made with: no file, a file that is no PDF by its
\* name, bytes that PDFDocument.load rejects, documents of 0..MaxPages pages,
\* a name holding ".pdf" twice, and a document sent without the split flag.
Requests ==
  {OrigReq("true", FALSE, NoName, FALSE, 0),
   OrigReq("true", TRUE, <<"doc", ".txt">>, FALSE, 0),
   OrigReq("true", TRUE, <<"doc", ".pdf">>, FALSE, 0),
   OrigReq("true", TRUE, <<"a", ".pdf", ".b", ".pdf">>, TRUE, 2),
   OrigReq("false", TRUE, <<"doc", ".pdf">>, TRUE, 2),
   OrigReq(Absent, TRUE, <<"doc", ".pdf">>, TRUE, 2)}
  \cup {OrigReq("true", TRUE, <<"doc", ".pdf">>, TRUE, n) : n \in 0..MaxPages}

\* --------------------------------------------------------------- responses
NoResp == [k |-> "none", status |-> 0, statusText |-> "", from |-> <<>>,
           contentLength |-> FALSE, body |-> NotJson]

\* What the transport answers to page i of call c (i = 0: the unsplit
\* request).  "throw" is no response at all.
Outcomes == {"ok", "created", "badjson", "http500", "throw"}

TransportResponse(c, i, kind) ==
  CASE kind = "ok" ->
         [k |-> "resp", status |-> 200, statusText |-> "OK", from |-> <<c, i>>,
          contentLength |-> TRUE, body |-> PageBody(c, i)]
    [] kind = "created" ->
         [k |-> "resp", status |-> 201, statusText |-> "Created",
          from |-> <<c, i>>, contentLength |-> TRUE, body |-> PageBody(c, i)]
    [] kind = "badjson" ->
         [k |-> "resp", status |-> 200, statusText |-> "OK", from |-> <<c, i>>,
          contentLength |-> TRUE, body |-> NotJson]
    [] kind = "http500" ->
         [k |-> "resp", status |-> 500, statusText |-> "Internal Server Error",
          from |-> <<c, i>>, contentLength |-> TRUE, body |-> ErrorBody(c, i)]
    [] OTHER -> NoResp

NoErr == "null"
TransportError == "TypeError: fetch failed"
NoOut == [k |-> "none", response |-> NoResp, error |-> NoErr]
Returned(response, error) ==
  [k |-> "returned", response |-> response, error |-> error]
Threw(error) == [k |-> "threw", response |-> NoResp, error |-> error]

\* ------------------------------------------------------------------ helpers
Min(a, b) == IF a < b THEN a ELSE b
Max(a, b) == IF a > b THEN a ELSE b

\* stringToBoolean of ./utils: "true", "1", "yes" are true.
StringToBoolean(s) == s \in {"true", "1", "yes"}

\* (formData.get("split_pdf_page") as string) ?? "false"
SplitField(req) == IF req.split = Absent THEN "false" ELSE req.split

\* file?.name.endsWith(".pdf")
EndsWithPdf(req) ==
  req.file /\ Len(req.name) > 0 /\ req.name[Len(req.name)] = ".pdf"

RECURSIVE RemoveFirst(_, _)
\* String.prototype.replace(piece, ""): the first occurrence only.
RemoveFirst(name, piece) ==
  IF name = <<>> THEN <<>>
  ELSE IF Head(name) = piece THEN Tail(name)
  ELSE <<Head(name)>> \o RemoveFirst(Tail(name), piece)

\* file.name.replace(".pdf", "")
FileNameStem(name) == RemoveFirst(name, ".pdf")

\* `${fileName}-${i + 1}.pdf`
PageFileName(name, i) == FileNameStem(name) \o <<"-", ToString(i), ".pdf">>

\* #prepareRequestHeaders: the content-type header is dropped.
PrepareRequestHeaders(req) == FALSE

\* #prepareRequestBody: both fields deleted, split_pdf_page appended as "false".
PrepareRequestBody(req) ==
  [req EXCEPT !.split = "false", !.file = FALSE, !.name = NoName,
              !.valid = FALSE, !.pages = <<>>]

\* The request of page i (1-based): lines 212-220.
PageRequest(req, i) ==
  [PrepareRequestBody(req) EXCEPT
     !.k = "page", !.file = TRUE, !.name = PageFileName(req.name, i),
     !.valid = TRUE, !.pages = <<req.pages[i]>>,
     !.contentType = PrepareRequestHeaders(req)]

\* The three conditions under which beforeRequest returns the request as is.
ShouldSkip(req) ==
  \/ ~StringToBoolean(SplitField(req))
  \/ ~EndsWithPdf(req)
  \/ ~client

\* Lines 227-230.
EffectiveLimit(p) ==
  IF p > MAX_NUMBER_OF_PARALLEL_REQUESTS
    THEN MAX_NUMBER_OF_PARALLEL_REQUESTS
    ELSE p

\* new Array(n): n empty slots.
NewArray(n) == [i \in 1..n |-> NoResp]

\* Mutant of WriteSlot: the response goes to the first empty slot, the
\* order of arrival.
WriteSlotByArrival(arr, i, r) ==
  IF \E j \in 1..Len(arr) : arr[j].k = "none"
    THEN LET first == CHOOSE j \in 1..Len(arr) :
                        arr[j].k = "none" /\ \A h \in 1..(j - 1) : arr[h].k # "none"
         IN [arr EXCEPT ![first] = r]
    ELSE Append(arr, r)

\* arr[i] = r of a JavaScript array: an index past the end grows the array.
WriteSlot(arr, i, r) ==
  [j \in 1..Max(Len(arr), i) |->
     IF j = i THEN r ELSE IF j <= Len(arr) THEN arr[j] ELSE NoResp]

\* {}
EmptyMap == [x \in {} |-> 0]
\* f with key id bound to v, whether or not it was bound.
Put(f, id, v) == [x \in (DOMAIN f) \cup {id} |-> IF x = id THEN v ELSE f[x]]
\* delete f[id]
Delete(f, id) == [x \in (DOMAIN f) \ {id} |-> f[x]]

\* arr.filter((e) => e)
RECURSIVE FilterFilled(_)
FilterFilled(arr) ==
  IF arr = <<>> THEN <<>>
  ELSE IF Head(arr).k = "none" THEN FilterFilled(Tail(arr))
  ELSE <<Head(arr)>> \o FilterFilled(Tail(arr))

\* Array.prototype.flat(): one level.
RECURSIVE Flat(_)
Flat(elements) ==
  IF elements = <<>> THEN <<>>
  ELSE (IF Head(elements).t = "arr" THEN Head(elements).items
        ELSE <<Head(elements)>>) \o Flat(Tail(elements))

\* #prepareResponseBody: the parsed bodies, flattened and stringified.  It
\* throws when a body is not JSON.
CanParseAll(responses) ==
  \A j \in 1..Len(responses) : IsJson(responses[j].body)
PrepareResponseBody(responses) ==
  Arr(Flat([j \in 1..Len(responses) |-> responses[j].body]))

\* #prepareResponseHeaders: the headers of the response without content-length.
\* new Response(body, {headers, status, statusText}).
MergedResponse(primary, responses) ==
  [k |-> "resp", status |-> primary.status, statusText |-> primary.statusText,
   from |-> primary.from, contentLength |-> FALSE,
   body |-> PrepareResponseBody(responses)]

\* ------------------------------------------------------------ call records
IdleCall ==
  [pc |-> "idle", id |-> "", path |-> "", req |-> NoReq, ret |-> NoReq,
   requests |-> <<>>, limit |-> 0, resp |-> NoResp, err |-> NoErr,
   handle |-> 0, coll |-> <<>>, out |-> NoOut]

\* A call has finished when its last hook has returned ("done") or thrown
\* ("threw"), or its beforeRequest has thrown ("failed"); its record is kept
\* for one step, until the caller has taken the outcome ("closed").
Finished == {"done", "threw", "failed"}
\* A call is in flight from its beforeRequest until it has finished.
InFlight(d) == calls[d].pc \notin {"idle", "closed"} \cup Finished

\* No outcome is waiting to be taken: taking it comes first.
Quiet == \A d \in Calls : calls[d].pc \notin Finished

\* Operation ids are unique among the calls in flight (spec, section 3).
IdFree(id) == \A d \in Calls : InFlight(d) => calls[d].id # id

\* Calls are numbered in the order in which they are issued, and the ids in
\* the order in which they are first used.
FirstId == CHOOSE id \in OpIds : TRUE
MayStart(c, id) ==
  /\ Quiet
  /\ calls[c].pc = "idle"
  /\ c > 1 => calls[c - 1].pc # "idle"
  /\ c = 1 => id = FirstId

RECURSIVE PagesInFlight(_)
PagesInFlight(S) ==
  IF S = {} THEN 0
  ELSE LET d == CHOOSE x \in S : TRUE
       IN (IF InFlight(d) THEN Len(calls[d].requests) ELSE 0)
          + PagesInFlight(S \ {d})

\* ---------------------------------------------------- async.parallelLimit
Settled == {"ok", "bad", "fail"}
Running(ts) == Cardinality({i \in 1..Len(ts) : ts[i] = "inflight"})
Started(ts) == Cardinality({i \in 1..Len(ts) : ts[i] # "queued"})

\* Mutant of Replenish: every queued task is started.
ReplenishAll(ts, limit) ==
  [i \in 1..Len(ts) |-> IF ts[i] = "queued" THEN "inflight" ELSE ts[i]]

\* Mutant of Replenish: once a task has failed no further task is started,
\* as async does when a task passes an error to its callback.
ReplenishUnlessFailed(ts, limit) ==
  IF \E i \in 1..Len(ts) : ts[i] = "fail" THEN ts
  ELSE LET upto == Min(Len(ts), Started(ts) + Max(0, limit - Running(ts)))
       IN [i \in 1..Len(ts) |->
             IF ts[i] = "queued" /\ i <= upto THEN "inflight" ELSE ts[i]]

\* Mutant of Replenish: the callback of a finished task does not replenish,
\* so that only the tasks of the first round are ever started.
ReplenishOnce(ts, limit) ==
  IF Started(ts) > 0 THEN ts
  ELSE [i \in 1..Len(ts) |->
          IF ts[i] = "queued" /\ i <= Min(Len(ts), Max(0, limit))
            THEN "inflight" ELSE ts[i]]

\* eachOfLimit's replenish: tasks are started in index order while fewer
\* than `limit` of them run.
Replenish(ts, limit) ==
  LET upto == Min(Len(ts), Started(ts) + Max(0, limit - Running(ts)))
  IN [i \in 1..Len(ts) |->
        IF ts[i] = "queued" /\ i <= upto THEN "inflight" ELSE ts[i]]

\* async.parallelLimit(tasks, limit) of n tasks: a limit below 1 makes
\* eachOfLimit throw a RangeError before any task starts, and the promise
\* rejects.
Dispatch(n, limit) ==
  IF limit < 1 THEN [i \in 1..n |-> "queued"]
  ELSE Replenish([i \in 1..n |-> "queued"], limit)

\* The requests of the tasks a step started, in index order.
RECURSIVE NewlyStarted(_, _, _, _)
NewlyStarted(before, after, requests, i) ==
  IF i > Len(before) THEN <<>>
  ELSE (IF before[i] = "queued" /\ after[i] = "inflight"
          THEN <<requests[i]>> ELSE <<>>)
       \o NewlyStarted(before, after, requests, i + 1)

\* Mutant of JoinState: the promise resolves with the first task that
\* settles, as a race would.
JoinStateEarly(h) ==
  IF calls[h].limit < 1 THEN "rejected"
  ELSE IF tasks[h] = <<>> \/ \E i \in 1..Len(tasks[h]) : tasks[h][i] \in Settled
    THEN "resolved"
  ELSE "pending"

\* The promise async.parallelLimit returned to call h.
JoinState(h) ==
  IF calls[h].limit < 1 THEN "rejected"
  ELSE IF \A i \in 1..Len(tasks[h]) : tasks[h][i] \in Settled THEN "resolved"
  ELSE "pending"

\* No afterSuccess/afterError waits on a join handle that has settled.  The
\* continuation of an await on a settled promise is a microtask: it runs
\* before the event loop delivers the next answer of the transport.
NoReadyJoin ==
  \A d \in Calls :
    calls[d].pc \in {"as_join", "ae_join"}
    => JoinState(calls[d].handle) = "pending"

\* Mutant of StoreResponse: the status is not looked at.
StoreResponseAnyStatus(resps, id, i, r) ==
  IF r.k = "resp" /\ id \in DOMAIN resps
    THEN [resps EXCEPT ![id] = WriteSlot(@, i, r)]
    ELSE resps

\* Lines 238-240: a response with status 200 is stored in slot i of the
\* array found under the operation id at that moment; without an array the
\* assignment throws inside the try block and the catch logs it.
StoreResponse(resps, id, i, r) ==
  IF r.k = "resp" /\ r.status = 200 /\ id \in DOMAIN resps
    THEN [resps EXCEPT ![id] = WriteSlot(@, i, r)]
    ELSE resps

\* What a task's request came to.
TaskResult(kind) ==
  CASE kind = "ok" -> "ok" [] kind = "badjson" -> "bad" [] OTHER -> "fail"

\* Mutant of ClearRequests: the join handle is left in place.
ClearRequestsForgotten(reqs, id) == reqs

\* Mutant of ClearResponses: only the join handle is deleted.
ClearResponsesForgotten(resps, id) == resps

\* Mutant of ClearResponses: the arrays of all operations are dropped.
ClearResponsesAll(resps, id) == EmptyMap

\* #clearOperation
ClearResponses(resps, id) == Delete(resps, id)
ClearRequests(reqs, id) == Delete(reqs, id)

\* Mutant of CollectResponses: the empty slots are not filtered out.
CollectResponsesUnfiltered(resps, id) ==
  IF id \in DOMAIN resps THEN resps[id] ELSE <<>>

\* Line 441
CollectResponses(resps, id) ==
  IF id \in DOMAIN resps THEN FilterFilled(resps[id]) ELSE <<>>

\* Lines 270-279
AfterSuccessResult(coll, response) ==
  Returned(MergedResponse(response, coll \o <<response>>), NoErr)

\* Mutant of AfterErrorResult: status and headers of the failed response.
AfterErrorResultOfFailure(coll, response, error) ==
  Returned(MergedResponse(IF response.k = "resp" THEN response ELSE coll[1],
                          coll), NoErr)

\* Lines 305-317
AfterErrorResult(coll, response, error) ==
  Returned(MergedResponse(coll[1], coll), NoErr)

\* -------------------------------------------------------------------- Init
Init ==
  /\ client = FALSE
  /\ parallelLimit = DefaultParallelLimit
  /\ partitionResponses = EmptyMap
  /\ partitionRequests = EmptyMap
  /\ calls = [c \in Calls |-> IdleCall]
  /\ tasks = [c \in Calls |-> <<>>]
  /\ sent = [c \in Calls |-> <<>>]

\* ----------------------------------------------------------------- actions
\* sdkInit: lines 164-168.
SdkInit ==
  /\ Quiet
  /\ ~client
  /\ client' = TRUE
  /\ UNCHANGED <<parallelLimit, partitionResponses, partitionRequests,
                 calls, tasks, sent>>

\* The user assigns the static field, before the first call.
SetParallelLimit(v) ==
  /\ \A c \in Calls : calls[c].pc = "idle"
  /\ parallelLimit = DefaultParallelLimit
  /\ v # DefaultParallelLimit
  /\ parallelLimit' = v
  /\ UNCHANGED <<client, partitionResponses, partitionRequests,
                 calls, tasks, sent>>

\* beforeRequest, lines 186-205: the request is returned as it is.
BeforeRequestSkip(c, id, req) ==
  /\ MayStart(c, id)
  /\ IdFree(id)
  /\ ShouldSkip(req)
  /\ calls' = [calls EXCEPT ![c] =
       [IdleCall EXCEPT !.pc = "send", !.id = id, !.path = "skip",
                        !.req = req, !.ret = req]]
  /\ UNCHANGED <<client, parallelLimit, partitionResponses,
                 partitionRequests, tasks, sent>>

\* Mutant of BeforeRequestFatal: the operation is registered before the
\* document is loaded.
BeforeRequestFatalRegistered(c, id, req) ==
  /\ MayStart(c, id)
  /\ IdFree(id)
  /\ ~ShouldSkip(req)
  /\ ~req.valid
  /\ partitionResponses' = Put(partitionResponses, id, NewArray(0))
  /\ partitionRequests' = Put(partitionRequests, id, c)
  /\ calls' = [calls EXCEPT ![c] =
       [IdleCall EXCEPT !.pc = "failed", !.id = id, !.path = "fatal",
                        !.req = req, !.limit = 1,
                        !.out = Threw("Error: invalid PDF")]]
  /\ UNCHANGED <<client, parallelLimit, tasks, sent>>

\* beforeRequest, lines 207-208 and 343-345: PDFDocument.load rejects and
\* beforeRequest rejects with it.
BeforeRequestFatal(c, id, req) ==
  /\ MayStart(c, id)
  /\ IdFree(id)
  /\ ~ShouldSkip(req)
  /\ ~req.valid
  /\ calls' = [calls EXCEPT ![c] =
       [IdleCall EXCEPT !.pc = "failed", !.id = id, !.path = "fatal",
                        !.req = req, !.out = Threw("Error: invalid PDF")]]
  /\ UNCHANGED <<client, parallelLimit, partitionResponses,
                 partitionRequests, tasks, sent>>

\* The derived requests, lines 211-220.
DerivedRequests(req) == [i \in 1..Len(req.pages) |-> PageRequest(req, i)]

\* requests.at(-1)
LastRequest(requests) ==
  IF requests = <<>> THEN NoReq ELSE requests[Len(requests)]

\* requests.slice(0, -1).length
BackgroundCount(requests) == Max(0, Len(requests) - 1)

\* Lines 211-248: the requests are built, the operation is registered under
\* the id, whatever was registered under it before, the background tasks
\* are dispatched and the last request is returned.
SplitAndDispatch(c, id, req) ==
  /\ LET requests == DerivedRequests(req)
         limit == EffectiveLimit(parallelLimit)
         ts == Dispatch(BackgroundCount(requests), limit)
     IN /\ partitionResponses' =
             Put(partitionResponses, id, NewArray(Len(requests)))
        /\ partitionRequests' = Put(partitionRequests, id, c)
        /\ tasks' = [tasks EXCEPT ![c] = ts]
        /\ sent' = [sent EXCEPT ![c] =
             NewlyStarted([i \in 1..Len(ts) |-> "queued"], ts, requests, 1)]
        /\ calls' = [calls EXCEPT ![c] =
             [IdleCall EXCEPT !.pc = "send", !.id = id, !.path = "split",
                              !.req = req, !.requests = requests,
                              !.limit = limit, !.ret = LastRequest(requests)]]
  /\ UNCHANGED <<client, parallelLimit>>

\* beforeRequest, lines 207-248: split, register, dispatch, return the last.
BeforeRequestSplit(c, id, req) ==
  /\ MayStart(c, id)
  /\ IdFree(id)
  /\ ~ShouldSkip(req)
  /\ req.valid
  /\ Len(req.pages) + PagesInFlight(Calls) <= MaxPagesInFlight
  /\ SplitAndDispatch(c, id, req)

\* The same beforeRequest, of a call that is given the operation id of a
\* call still in flight.
BeforeRequestSplitOverlap(c, id, req) ==
  /\ MayStart(c, id)
  /\ ~IdFree(id)
  /\ ~ShouldSkip(req)
  /\ req.valid
  /\ Len(req.pages) + PagesInFlight(Calls) <= MaxPagesInFlight
  /\ SplitAndDispatch(c, id, req)

\* A background task's request returns (lines 236-243), and the callback of
\* async.parallelLimit starts the next queued task.
TaskReturn(c, i, kind) ==
  /\ Quiet
  /\ NoReadyJoin
  /\ i \in 1..Len(tasks[c])
  /\ tasks[c][i] = "inflight"
  /\ LET done == [tasks[c] EXCEPT ![i] = TaskResult(kind)]
         ts == Replenish(done, calls[c].limit)
     IN /\ tasks' = [tasks EXCEPT ![c] = ts]
        /\ sent' = [sent EXCEPT ![c] =
             @ \o NewlyStarted(done, ts, calls[c].requests, 1)]
  /\ partitionResponses' =
       StoreResponse(partitionResponses, calls[c].id, i,
                     TransportResponse(c, i, kind))
  /\ UNCHANGED <<client, parallelLimit, partitionRequests, calls>>

\* The pipeline hands the request beforeRequest returned to the transport.
\* Without a request (requests.at(-1) of no requests) the transport throws.
PipelineSend(c) ==
  /\ Quiet
  /\ calls[c].pc = "send"
  /\ calls' = [calls EXCEPT ![c] =
       IF calls[c].ret.k = "none"
         THEN [@ EXCEPT !.pc = "afterError", !.err = TransportError]
         ELSE [@ EXCEPT !.pc = "final"]]
  /\ UNCHANGED <<client, parallelLimit, partitionResponses,
                 partitionRequests, tasks, sent>>

\* The page the pipeline's own request carries: the last one, or 0 for an
\* unsplit request.
FinalPage(c) == Len(calls[c].requests)

\* The transport answers the pipeline's request; the pipeline calls
\* afterSuccess with a response that is no error, afterError otherwise.
PipelineReceive(c, kind) ==
  /\ Quiet
  /\ NoReadyJoin
  /\ calls[c].pc = "final"
  /\ LET r == TransportResponse(c, FinalPage(c), kind)
     IN calls' = [calls EXCEPT ![c] =
          CASE kind = "throw" ->
                 [@ EXCEPT !.pc = "afterError", !.err = TransportError]
            [] kind = "http500" ->
                 [@ EXCEPT !.pc = "afterError", !.resp = r]
            [] OTHER ->
                 [@ EXCEPT !.pc = "afterSuccess", !.resp = r]]
  /\ UNCHANGED <<client, parallelLimit, partitionResponses,
                 partitionRequests, tasks, sent>>

\* afterSuccess, lines 264-268 with 433-437: no join handle under the id.
AfterSuccessNoSplit(c) ==
  /\ Quiet
  /\ calls[c].pc = "afterSuccess"
  /\ calls[c].id \notin DOMAIN partitionRequests
  /\ calls' = [calls EXCEPT ![c] =
       [@ EXCEPT !.pc = "done", !.out = Returned(calls[c].resp, NoErr)]]
  /\ UNCHANGED <<client, parallelLimit, partitionResponses,
                 partitionRequests, tasks, sent>>

\* afterSuccess, lines 264 with 433-439: the handle is read and awaited.
AfterSuccessAwait(c) ==
  /\ Quiet
  /\ calls[c].pc = "afterSuccess"
  /\ calls[c].id \in DOMAIN partitionRequests
  /\ calls' = [calls EXCEPT ![c] =
       [@ EXCEPT !.pc = "as_join", !.handle = partitionRequests[calls[c].id]]]
  /\ UNCHANGED <<client, parallelLimit, partitionResponses,
                 partitionRequests, tasks, sent>>

\* afterSuccess, lines 439-441: the awaited handle has settled.  A rejected
\* handle makes the await, and afterSuccess, throw.
AfterSuccessCollect(c) ==
  /\ Quiet
  /\ calls[c].pc = "as_join"
  /\ JoinState(calls[c].handle) # "pending"
  /\ calls' = [calls EXCEPT ![c] =
       IF JoinState(calls[c].handle) = "rejected"
         THEN [@ EXCEPT !.pc = "threw", !.out = Threw("RangeError")]
         ELSE [@ EXCEPT !.pc = "as_merge",
                 !.coll = CollectResponses(partitionResponses, calls[c].id)]]
  /\ UNCHANGED <<client, parallelLimit, partitionResponses,
                 partitionRequests, tasks, sent>>

\* afterSuccess, lines 270-279: merge, clear, return.  A body that does not
\* parse makes #prepareResponseBody, and afterSuccess, throw at line 271.
AfterSuccessMerge(c) ==
  /\ Quiet
  /\ calls[c].pc = "as_merge"
  /\ IF CanParseAll(calls[c].coll \o <<calls[c].resp>>)
       THEN /\ partitionResponses' =
                 ClearResponses(partitionResponses, calls[c].id)
            /\ partitionRequests' =
                 ClearRequests(partitionRequests, calls[c].id)
            /\ calls' = [calls EXCEPT ![c] =
                 [@ EXCEPT !.pc = "done",
                           !.out = AfterSuccessResult(calls[c].coll,
                                                      calls[c].resp)]]
       ELSE /\ calls' = [calls EXCEPT ![c] =
                 [@ EXCEPT !.pc = "threw", !.out = Threw("SyntaxError")]]
            /\ UNCHANGED <<partitionResponses, partitionRequests>>
  /\ UNCHANGED <<client, parallelLimit, tasks, sent>>

\* afterError, lines 298-303 with 433-437: no join handle under the id.
AfterErrorNoSplit(c) ==
  /\ Quiet
  /\ calls[c].pc = "afterError"
  /\ calls[c].id \notin DOMAIN partitionRequests
  /\ partitionResponses' = ClearResponses(partitionResponses, calls[c].id)
  /\ partitionRequests' = ClearRequests(partitionRequests, calls[c].id)
  /\ calls' = [calls EXCEPT ![c] =
       [@ EXCEPT !.pc = "done",
                 !.out = Returned(calls[c].resp, calls[c].err)]]
  /\ UNCHANGED <<client, parallelLimit, tasks, sent>>

\* afterError, lines 298 with 433-439.
AfterErrorAwait(c) ==
  /\ Quiet
  /\ calls[c].pc = "afterError"
  /\ calls[c].id \in DOMAIN partitionRequests
  /\ calls' = [calls EXCEPT ![c] =
       [@ EXCEPT !.pc = "ae_join", !.handle = partitionRequests[calls[c].id]]]
  /\ UNCHANGED <<client, parallelLimit, partitionResponses,
                 partitionRequests, tasks, sent>>

\* afterError, lines 439-441 and 300-303: nothing collected is total failure.
AfterErrorCollect(c) ==
  /\ Quiet
  /\ calls[c].pc = "ae_join"
  /\ JoinState(calls[c].handle) # "pending"
  /\ LET coll == CollectResponses(partitionResponses, calls[c].id)
     IN IF JoinState(calls[c].handle) = "rejected"
          THEN /\ calls' = [calls EXCEPT ![c] =
                    [@ EXCEPT !.pc = "threw", !.out = Threw("RangeError")]]
               /\ UNCHANGED <<partitionResponses, partitionRequests>>
          ELSE IF coll = <<>>
          THEN /\ partitionResponses' =
                    ClearResponses(partitionResponses, calls[c].id)
               /\ partitionRequests' =
                    ClearRequests(partitionRequests, calls[c].id)
               /\ calls' = [calls EXCEPT ![c] =
                    [@ EXCEPT !.pc = "done",
                              !.out = Returned(calls[c].resp, calls[c].err)]]
          ELSE /\ calls' = [calls EXCEPT ![c] =
                    [@ EXCEPT !.pc = "ae_merge", !.coll = coll]]
               /\ UNCHANGED <<partitionResponses, partitionRequests>>
  /\ UNCHANGED <<client, parallelLimit, tasks, sent>>

\* afterError, lines 305-317.
AfterErrorMerge(c) ==
  /\ Quiet
  /\ calls[c].pc = "ae_merge"
  /\ IF CanParseAll(calls[c].coll)
       THEN /\ partitionResponses' =
                 ClearResponses(partitionResponses, calls[c].id)
            /\ partitionRequests' =
                 ClearRequests(partitionRequests, calls[c].id)
            /\ calls' = [calls EXCEPT ![c] =
                 [@ EXCEPT !.pc = "done",
                           !.out = AfterErrorResult(calls[c].coll,
                                       calls[c].resp, calls[c].err)]]
       ELSE /\ calls' = [calls EXCEPT ![c] =
                 [@ EXCEPT !.pc = "threw", !.out = Threw("SyntaxError")]]
            /\ UNCHANGED <<partitionResponses, partitionRequests>>
  /\ UNCHANGED <<client, parallelLimit, tasks, sent>>

\* The caller takes the outcome of a finished call.  The record is dropped;
\* what the hook can still reach stays: the limit the call's join handle was
\* made with and, while tasks of the call are running, what they use.
Forget(c) ==
  /\ calls[c].pc \in Finished
  /\ IF \A i \in 1..Len(tasks[c]) : tasks[c][i] \in Settled
       THEN /\ calls' = [calls EXCEPT ![c] =
                 [IdleCall EXCEPT !.pc = "closed", !.limit = calls[c].limit]]
            /\ tasks' = [tasks EXCEPT ![c] = <<>>]
            /\ sent' = [sent EXCEPT ![c] = <<>>]
       ELSE /\ calls' = [calls EXCEPT ![c] =
                 [IdleCall EXCEPT !.pc = "closed", !.limit = calls[c].limit,
                                  !.id = calls[c].id,
                                  !.requests = calls[c].requests]]
            /\ UNCHANGED <<tasks, sent>>
  /\ UNCHANGED <<client, parallelLimit, partitionResponses, partitionRequests>>

\* ------------------------------------------------------------ specification
HookStep ==
  \/ SdkInit
  \/ \E c \in Calls, id \in OpIds, req \in Requests :
       BeforeRequestSkip(c, id, req)
  \/ \E c \in Calls, id \in OpIds, req \in Requests :
       BeforeRequestFatal(c, id, req)
  \/ \E c \in Calls, id \in OpIds, req \in Requests :
       BeforeRequestSplit(c, id, req)
  \/ \E c \in Calls, i \in 1..MaxPages, kind \in Outcomes :
       TaskReturn(c, i, kind)
  \/ \E c \in Calls : PipelineSend(c)
  \/ \E c \in Calls, kind \in Outcomes : PipelineReceive(c, kind)
  \/ \E c \in Calls : AfterSuccessNoSplit(c)
  \/ \E c \in Calls : AfterSuccessAwait(c)
  \/ \E c \in Calls : AfterSuccessCollect(c)
  \/ \E c \in Calls : AfterSuccessMerge(c)
  \/ \E c \in Calls : AfterErrorNoSplit(c)
  \/ \E c \in Calls : AfterErrorAwait(c)
  \/ \E c \in Calls : AfterErrorCollect(c)
  \/ \E c \in Calls : AfterErrorMerge(c)
  \/ \E c \in Calls : Forget(c)

\* The parallel limit is one the configuration surface accepts.
Next == HookStep \/ \E v \in ValidLimits : SetParallelLimit(v)
Spec == Init /\ [][Next]_vars

\* The pipeline gives every call of one operation the same operation id:
\* split calls may overlap under one id.
NextOverlap ==
  \/ Next
  \/ \E c \in Calls, id \in OpIds, req \in Requests :
       BeforeRequestSplitOverlap(c, id, req)
SpecOverlap == Init /\ [][NextOverlap]_vars

\* What runs once calls have been made: the continuations of the hooks and
\* of the pipeline, and the returns of the requests handed to the transport.
Progress ==
  \/ \E c \in Calls : PipelineSend(c)
  \/ \E c \in Calls, kind \in Outcomes : PipelineReceive(c, kind)
  \/ \E c \in Calls, i \in 1..MaxPages, kind \in Outcomes :
       TaskReturn(c, i, kind)
  \/ \E c \in Calls :
       \/ AfterSuccessNoSplit(c) \/ AfterSuccessAwait(c)
       \/ AfterSuccessCollect(c) \/ AfterSuccessMerge(c)
       \/ AfterErrorNoSplit(c) \/ AfterErrorAwait(c)
       \/ AfterErrorCollect(c) \/ AfterErrorMerge(c)
       \/ Forget(c)

\* Fair scheduling: the event loop runs a continuation that is ready, and
\* the transport answers or fails every request it was handed; so the
\* program does not stop while one of these steps is possible.
Fairness == WF_vars(Progress)
FairSpec == Init /\ [][Next]_vars /\ Fairness

\* The parallel limit is any integer.
NextAnyLimit == HookStep \/ \E v \in AnyLimits : SetParallelLimit(v)
SpecAnyLimit == Init /\ [][NextAnyLimit]_vars

\* ==================================================================== claims
\* What the claims speak about.
IsSplit(c) == calls[c].path = "split"
PageCount(c) == Len(calls[c].requests)
HasReturned(c) == calls[c].pc = "done"
HasFinished(c) == calls[c].pc \in {"done", "threw"}
HasState(id) ==
  id \in DOMAIN partitionResponses \/ id \in DOMAIN partitionRequests
\* The pipeline's own request: answered without an error status, or failed.
FinalSucceeded(c) ==
  /\ calls[c].resp.k = "resp"
  /\ calls[c].resp.status \in {200, 201}
  /\ IsJson(calls[c].resp.body)
FinalFailed(c) ==
  \/ calls[c].resp.k = "resp" /\ calls[c].resp.status = 500
  \/ calls[c].resp.k = "none" /\ calls[c].err = TransportError
\* Every background request of c ended in one of the ways of S.
Background(c, S) ==
  /\ Len(tasks[c]) = BackgroundCount(calls[c].requests)
  /\ \A i \in 1..Len(tasks[c]) : tasks[c][i] \in S

\* The elements of the pages lo..hi of c whose background request succeeded,
\* page after page.
RECURSIVE ElementsOfOkPages(_, _, _)
ElementsOfOkPages(c, lo, hi) ==
  IF lo > hi THEN <<>>
  ELSE (IF tasks[c][lo] = "ok" THEN PageBody(c, lo).items ELSE <<>>)
       \o ElementsOfOkPages(c, lo + 1, hi)
FirstOkPage(c) ==
  CHOOSE i \in 1..Len(tasks[c]) :
    tasks[c][i] = "ok" /\ \A j \in 1..(i - 1) : tasks[c][j] # "ok"

\* C1. Cleanup: once afterSuccess or afterError has returned for an id, the
\* store holds neither a pending-responses entry nor a join handle for it,
\* split or not; and a clear of an id without state (afterError of a call
\* that found no join handle) leaves the store as it was.
C1_Cleanup ==
  /\ [](\A c \in Calls : HasReturned(c) => ~HasState(calls[c].id))
  /\ [][\A c \in Calls :
          (calls[c].pc = "afterError" /\ calls'[c].pc = "done")
            => UNCHANGED <<partitionResponses, partitionRequests>>]_vars

\* A split call whose afterSuccess merged a collected response and returned.
C1_Witness ==
  \E c \in Calls :
    /\ HasReturned(c) /\ IsSplit(c) /\ FinalSucceeded(c)
    /\ Len(calls[c].coll) >= 1
    /\ ~HasState(calls[c].id)

\* C2. Order preservation: when every page request of a split of N pages
\* succeeds, afterSuccess returns the elements of the pages 1..N in page
\* order, flattened by one level, whatever the order in which the
\* background tasks returned and whatever the limit; and the return of
\* background task i changes no slot but slot i of its operation.
C2_PageOrder ==
  /\ [](\A c \in Calls :
          (/\ IsSplit(c) /\ HasFinished(c) /\ PageCount(c) >= 1
           /\ FinalSucceeded(c) /\ Background(c, {"ok"}))
          => /\ calls[c].out.k = "returned"
             /\ calls[c].out.response.body =
                  Arr(ElementsOfOkPages(c, 1, PageCount(c) - 1)
                      \o PageBody(c, PageCount(c)).items))
  /\ [][\A c \in Calls : \A i \in 1..Len(tasks[c]) :
          (tasks[c][i] = "inflight" /\ tasks'[c][i] \in Settled)
          => /\ DOMAIN partitionResponses' = DOMAIN partitionResponses
             /\ \A id \in DOMAIN partitionResponses :
                  /\ Len(partitionResponses'[id]) = Len(partitionResponses[id])
                  /\ \A j \in 1..Len(partitionResponses[id]) :
                       (id # calls[c].id \/ j # i)
                       => partitionResponses'[id][j] = partitionResponses[id][j]
         ]_vars

\* Three pages, all answered, with two background tasks.
C2_Witness ==
  \E c \in Calls :
    /\ IsSplit(c) /\ HasReturned(c) /\ PageCount(c) = 3
    /\ FinalSucceeded(c) /\ Background(c, {"ok"})
    /\ Len(calls[c].out.response.body.items) = 6

\* C3. Partial failure, final page answered: when the final request succeeds
\* and each background request either succeeded or failed (transport error
\* or a status other than 200), afterSuccess returns, with no error, the
\* elements of the successful background pages in page order followed by
\* those of the final page, under the status and status text of the final
\* response.
C3_PartialFailure ==
  \A c \in Calls :
    (/\ IsSplit(c) /\ HasFinished(c) /\ PageCount(c) >= 1
     /\ FinalSucceeded(c) /\ Background(c, {"ok", "fail"}))
    => /\ calls[c].out.k = "returned"
       /\ calls[c].out.error = NoErr
       /\ calls[c].out.response.body =
            Arr(ElementsOfOkPages(c, 1, PageCount(c) - 1)
                \o PageBody(c, PageCount(c)).items)
       /\ calls[c].out.response.status = calls[c].resp.status
       /\ calls[c].out.response.statusText = calls[c].resp.statusText

\* Three pages, page 2 failed, pages 1 and 3 answered.
C3_Witness ==
  \E c \in Calls :
    /\ IsSplit(c) /\ HasReturned(c) /\ PageCount(c) = 3 /\ FinalSucceeded(c)
    /\ tasks[c] = <<"ok", "fail">>
    /\ Len(calls[c].out.response.body.items) = 4

\* C4. Partial success absorbs a failed final page: when the final request
\* fails, at least one background request succeeded and the others failed,
\* afterError returns error null and a response holding the elements of the
\* successful background pages only, in page order, with the status (200),
\* the status text and the headers (content-length removed) of the first
\* collected background response.
C4_PartialSuccess ==
  \A c \in Calls :
    (/\ IsSplit(c) /\ HasFinished(c) /\ FinalFailed(c)
     /\ Background(c, {"ok", "fail"})
     /\ \E i \in 1..Len(tasks[c]) : tasks[c][i] = "ok")
    => /\ calls[c].out.k = "returned"
       /\ calls[c].out.error = NoErr
       /\ calls[c].out.response.body =
            Arr(ElementsOfOkPages(c, 1, PageCount(c) - 1))
       /\ calls[c].out.response.status = 200
       /\ calls[c].out.response.statusText = "OK"
       /\ calls[c].out.response.from = <<c, FirstOkPage(c)>>
       /\ ~calls[c].out.response.contentLength

\* The final page answered 500, the first background page failed and the
\* second one succeeded.
C4_Witness ==
  \E c \in Calls :
    /\ IsSplit(c) /\ HasReturned(c) /\ PageCount(c) = 3
    /\ calls[c].resp.status = 500
    /\ tasks[c] = <<"fail", "ok">>
    /\ calls[c].out.response.from = <<c, 2>>

\* C5. Total failure: when the final request fails and every background
\* request failed, or there was none, afterError returns the response it
\* was given (none, if the transport threw) and the error it was given, and
\* no state is left under the id.
C5_TotalFailure ==
  \A c \in Calls :
    (/\ IsSplit(c) /\ HasFinished(c) /\ FinalFailed(c)
     /\ Background(c, {"fail"}))
    => /\ calls[c].out = Returned(calls[c].resp, calls[c].err)
       /\ ~HasState(calls[c].id)

\* Three pages, all three requests failed, the final one without a response.
C5_Witness ==
  \E c \in Calls :
    /\ IsSplit(c) /\ HasReturned(c) /\ PageCount(c) = 3
    /\ tasks[c] = <<"fail", "fail">>
    /\ calls[c].resp.k = "none" /\ calls[c].err = TransportError
    /\ calls[c].out.error = TransportError

\* C6. Skip paths are the identity: when the split flag is false or absent,
\* or the file name does not end in .pdf, or no client was set, beforeRequest
\* returns the request it was given and starts no background request, and
\* the afterSuccess or afterError that follows returns the response (and
\* error) it was given.
C6_SkipIdentity ==
  \A c \in Calls :
    calls[c].path = "skip"
    => /\ calls[c].ret = calls[c].req
       /\ tasks[c] = <<>> /\ sent[c] = <<>>
       /\ calls[c].pc \in Finished
            => calls[c].out = Returned(calls[c].resp, calls[c].err)

\* The name of page i of a file: the name without its .pdf ending, then
\* -i.pdf.
ExpectedPageName(name, i) ==
  SubSeq(name, 1, Len(name) - 1) \o <<"-", ToString(i), ".pdf">>

\* C7. Every page is sent exactly once: a split of N pages builds N
\* requests, request i holding page i alone under the name <stem>-<i>.pdf
\* with the split flag "false"; the background tasks hand requests 1..N-1
\* to the transport, each once, and request N is returned to the pipeline.
C7_EveryPageOnce ==
  \A c \in Calls :
    (IsSplit(c) /\ Len(calls[c].req.pages) >= 1)
    => /\ PageCount(c) = Len(calls[c].req.pages)
       /\ \A i \in 1..PageCount(c) :
            /\ calls[c].requests[i].pages = <<i>>
            /\ calls[c].requests[i].split = "false"
            /\ calls[c].requests[i].name =
                 ExpectedPageName(calls[c].req.name, i)
       /\ calls[c].ret = calls[c].requests[PageCount(c)]
       /\ Len(sent[c]) <= PageCount(c) - 1
       /\ \A j \in 1..Len(sent[c]) : sent[c][j] = calls[c].requests[j]
       /\ JoinState(c) = "resolved" => Len(sent[c]) = PageCount(c) - 1

\* C8. Bounded parallelism: the background requests of a call that are with
\* the transport never exceed the call's effective limit; outside of
\* beforeRequest a background request starts only in the step in which one
\* of the same call returns.  The pipeline's own request is not counted.
C8_BoundedParallelism ==
  /\ [](\A c \in Calls :
          IsSplit(c) => /\ Running(tasks[c]) <= calls[c].limit
                        /\ calls[c].limit = EffectiveLimit(parallelLimit))
  /\ [][\A c \in Calls :
          (calls[c].pc # "idle" /\ Started(tasks'[c]) > Started(tasks[c]))
          => /\ \E i \in 1..Len(tasks[c]) :
                  tasks[c][i] = "inflight" /\ tasks'[c][i] \in Settled
             /\ Running(tasks'[c]) <= Running(tasks[c])]_vars

\* As many background requests with the transport as the limit allows, one
\* more waiting, and the pipeline's request with the transport as well.
C8_Witness ==
  \E c \in Calls :
    /\ IsSplit(c) /\ calls[c].pc = "final"
    /\ Running(tasks[c]) = calls[c].limit
    /\ \E i \in 1..Len(tasks[c]) : tasks[c][i] = "queued"

\* C9. Effective bound: the limit used for the dispatch is
\* min(configured, 15), a configured value of 0 or less counts as 5, and so
\* the limit is always one of 1..15.
C9_EffectiveBound ==
  \A c \in Calls :
    IsSplit(c)
    => /\ calls[c].limit =
            (IF parallelLimit <= 0 THEN DefaultParallelLimit
             ELSE Min(parallelLimit, MAX_NUMBER_OF_PARALLEL_REQUESTS))
       /\ calls[c].limit \in 1..MAX_NUMBER_OF_PARALLEL_REQUESTS

SlotOf(c, i) ==
  IF calls[c].id \in DOMAIN partitionResponses
       /\ i <= Len(partitionResponses[calls[c].id])
    THEN partitionResponses[calls[c].id][i]
    ELSE NoResp

\* Background task i of c is over: it has put the response to page i of c
\* into slot i, or it has failed and slot i is empty.
TaskOver(c, i) ==
  \/ tasks[c][i] \in {"ok", "bad"} /\ SlotOf(c, i).from = <<c, i>>
  \/ tasks[c][i] = "fail" /\ SlotOf(c, i).k = "none"

\* The step in which afterSuccess or afterError of c gets past its await of
\* the join handle and reads the slots.
PassesJoin(c) ==
  /\ calls[c].pc \in {"as_join", "ae_join"}
  /\ calls'[c].pc \notin {"as_join", "ae_join"}

\* C11. The join is never early and never aborted: afterSuccess/afterError
\* of a split call get past the join, and read the slots, only when each of
\* the N-1 background tasks is over (slot filled, or failed with the slot
\* empty), and what they read is the filled slots in slot order; a
\* background task that fails changes no slot, leaves every sibling that is
\* running or over as it is, and lets the next waiting sibling start.
C11_JoinNeverEarly ==
  /\ [][\A c \in Calls :
          (PassesJoin(c) /\ IsSplit(c))
          => /\ calls[c].handle = c
             /\ Len(tasks[c]) = BackgroundCount(calls[c].requests)
             /\ \A i \in 1..Len(tasks[c]) : TaskOver(c, i)
             /\ calls'[c].pc \in {"as_merge", "ae_merge"}
                  => calls'[c].coll =
                       FilterFilled([i \in 1..Len(tasks[c]) |-> SlotOf(c, i)])
         ]_vars
  /\ [][\A c \in Calls : \A i \in 1..Len(tasks[c]) :
          (tasks[c][i] = "inflight" /\ tasks'[c][i] = "fail")
          => /\ partitionResponses' = partitionResponses
             /\ \A j \in 1..Len(tasks[c]) :
                  (j # i /\ tasks[c][j] # "queued")
                  => tasks'[c][j] = tasks[c][j]
             /\ (\E j \in 1..Len(tasks[c]) : tasks[c][j] = "queued")
                  => \E j \in 1..Len(tasks[c]) :
                       tasks[c][j] = "queued" /\ tasks'[c][j] = "inflight"
         ]_vars
  /\ [](\A c \in Calls :
          (IsSplit(c) /\ calls[c].pc \in {"as_merge", "ae_merge"})
          => \A i \in 1..Len(tasks[c]) : tasks[c][i] \in Settled)

\* With limit 1: the first of two background tasks failed, the second one
\* ran after it and filled its slot, and afterSuccess has read the slots.
C11_Witness ==
  \E c \in Calls :
    /\ IsSplit(c) /\ calls[c].pc = "as_merge" /\ calls[c].limit = 1
    /\ tasks[c] = <<"fail", "ok">>
    /\ Len(calls[c].coll) = 1 /\ calls[c].coll[1].from = <<c, 2>>

\* The operation of call c is registered: the join handle under its id is
\* the one its beforeRequest made.
Registered(c) ==
  /\ calls[c].id \in DOMAIN partitionRequests
  /\ calls[c].id \in DOMAIN partitionResponses
  /\ partitionRequests[calls[c].id] = c

\* C12. Slot container size: the array registered for a split of N pages
\* has exactly N-1 slots, all of them empty when it is created, and its
\* length stays the same until the operation is cleared.
C12_SlotCount ==
  /\ [](\A c \in Calls :
          (IsSplit(c) /\ Registered(c) /\ Len(calls[c].req.pages) >= 1)
          => Len(partitionResponses[calls[c].id]) = Len(calls[c].req.pages) - 1)
  /\ [][\A c \in Calls :
          (calls[c].pc = "idle" /\ calls'[c].path = "split")
          => \A i \in 1..Len(partitionResponses'[calls'[c].id]) :
               partitionResponses'[calls'[c].id][i].k = "none"]_vars
  /\ [][\A id \in (DOMAIN partitionRequests) \cap (DOMAIN partitionRequests') :
          partitionRequests'[id] = partitionRequests[id]
          => Len(partitionResponses'[id]) = Len(partitionResponses[id])]_vars

\* C13. afterSuccess clears unconditionally: once afterSuccess or afterError
\* of a split call has been exited, by a return or by a throw out of the
\* await of the join or out of the merge, no state is left under the id of
\* the call.
C13_ClearsUnconditionally ==
  \A c \in Calls :
    (IsSplit(c) /\ HasFinished(c)) => ~HasState(calls[c].id)

\* The call whose page an element of a body belongs to.
ElementCall(e) == IF e.t = "obj" THEN e.id[1] ELSE e.items[1].id[1]

\* C14. Isolation between operations with different ids: every filled slot
\* of the array registered by a split call holds a response to a page of
\* that call, and the return of a background task changes no array but the
\* one under its own call's id; the merged response a split call returns
\* holds elements of its own pages only; and the step that clears one id
\* leaves the array and the join handle of every other id as they were.
C14_Isolation ==
  /\ [](\A c \in Calls :
          (IsSplit(c) /\ Registered(c))
          => \A i \in 1..Len(partitionResponses[calls[c].id]) :
               \/ SlotOf(c, i).k = "none"
               \/ SlotOf(c, i).from = <<c, i>>)
  /\ [](\A c \in Calls :
          (IsSplit(c) /\ HasReturned(c))
          => \A j \in 1..Len(calls[c].out.response.body.items) :
               ElementCall(calls[c].out.response.body.items[j]) = c)
  /\ [][\A c \in Calls : \A i \in 1..Len(tasks[c]) :
          (tasks[c][i] = "inflight" /\ tasks'[c][i] \in Settled)
          => \A id \in DOMAIN partitionResponses :
               id # calls[c].id
               => /\ id \in DOMAIN partitionResponses'
                  /\ partitionResponses'[id] = partitionResponses[id]]_vars
  /\ [][\A id \in DOMAIN partitionRequests :
          id \notin DOMAIN partitionRequests'
          => \A other \in (DOMAIN partitionRequests) \ {id} :
               /\ other \in DOMAIN partitionRequests'
               /\ partitionRequests'[other] = partitionRequests[other]
               /\ other \in DOMAIN partitionResponses
                    => /\ other \in DOMAIN partitionResponses'
                       /\ partitionResponses'[other] =
                            partitionResponses[other]]_vars

\* Two split calls under different ids in flight together: one has merged
\* a background page and returned, its state cleared, while the array of
\* the other one, with a filled slot, is still registered.
C14_Witness ==
  \E c, d \in Calls :
    /\ c # d /\ calls[c].id # calls[d].id
    /\ IsSplit(d) /\ HasReturned(d) /\ Len(calls[d].coll) >= 1
    /\ ~HasState(calls[d].id)
    /\ IsSplit(c) /\ InFlight(c) /\ Registered(c)
    /\ SlotOf(c, 1).from = <<c, 1>>

\* C15. Degenerate split: a split call whose document has fewer than 2
\* pages registers an operation, starts no background task and returns the
\* request of the final page to the pipeline; the join is complete without
\* a task to wait for; and when the final page is answered, afterSuccess
\* returns the final response's body flattened by one level, alone, and
\* leaves no state.
C15_DegenerateSplit ==
  \A c \in Calls :
    (IsSplit(c) /\ Len(calls[c].req.pages) < 2)
    => /\ calls[c].pc = "send" => Registered(c)
       /\ tasks[c] = <<>> /\ sent[c] = <<>>
       /\ calls[c].ret.k = "page"
       /\ calls[c].ret.pages = calls[c].req.pages
       /\ calls[c].pc = "as_join" => JoinState(calls[c].handle) = "resolved"
       /\ (HasFinished(c) /\ FinalSucceeded(c))
            => /\ calls[c].out.k = "returned"
               /\ calls[c].out.response.body =
                    Arr(Flat(<<calls[c].resp.body>>))
               /\ ~HasState(calls[c].id)

\* afterSuccess or afterError of c has been called and has not been exited.
PostPending(c) ==
  calls[c].pc \in {"afterSuccess", "afterError", "as_join", "ae_join",
                   "as_merge", "ae_merge"}
\* Background task i of c has been started.
TaskStarted(c, i) == i <= Len(tasks[c]) /\ tasks[c][i] # "queued"
\* Every background task of c has returned.
JoinComplete(c) ==
  /\ Len(tasks[c]) = BackgroundCount(calls[c].requests)
  /\ \A i \in 1..Len(tasks[c]) : tasks[c][i] \in Settled

\* C16. Liveness of the join: when the scheduling is fair and the transport
\* answers or fails every background request, every background task of a
\* split call is eventually started, the join eventually completes, and an
\* afterSuccess/afterError that has been called is eventually exited: from
\* some moment on, no split call in flight has a task that was not started
\* or a join that is not complete, and no call has a hook pending (a call
\* leaves these conditions only by meeting them).  And for as long as a
\* background request has not returned, the call stays at or before its
\* await of the join, a request in flight ending in no other way than by
\* its return: nothing cancels it or gives the wait up.
C16_JoinLiveness ==
  /\ <>[](\A c \in Calls :
            /\ ~PostPending(c)
            /\ (IsSplit(c) /\ InFlight(c))
                 => /\ JoinComplete(c)
                    /\ \A i \in 1..Len(tasks[c]) : TaskStarted(c, i))
  /\ [](\A c \in Calls :
          (IsSplit(c) /\ \E i \in 1..Len(tasks[c]) : tasks[c][i] \notin Settled)
          => calls[c].pc \in {"send", "final", "afterSuccess", "afterError",
                              "as_join", "ae_join"})
  /\ [][\A c \in Calls : \A i \in 1..Len(tasks[c]) :
          (tasks[c][i] = "inflight" /\ tasks'[c][i] # "inflight")
          => tasks'[c][i] \in Settled]_vars

\* afterSuccess waits at the join: with limit 1, the first background task
\* has returned, the second one is with the transport.
C16_Witness ==
  \E c \in Calls :
    /\ IsSplit(c) /\ calls[c].pc = "as_join" /\ calls[c].limit = 1
    /\ Len(tasks[c]) = 2
    /\ tasks[c][1] \in Settled /\ tasks[c][2] = "inflight"

\* C17. No write after clear: a background task of a call returns, and
\* writes its slot, only while the operation of that call is registered,
\* and the state of an operation is removed only when every background
\* task of the call that removes it has returned; so the array a split
\* registers, under a new id or a used one, has nothing but empty slots,
\* and the responses a split call collects are responses to its own pages.
C17_NoWriteAfterClear ==
  /\ [][\A c \in Calls : \A i \in 1..Len(tasks[c]) :
          (tasks[c][i] = "inflight" /\ tasks'[c][i] \in Settled)
          => Registered(c)]_vars
  /\ [][\A c \in Calls :
          (HasState(calls[c].id) /\ ~HasState(calls[c].id)'
           /\ calls'[c].pc = "done")
          => \A i \in 1..Len(tasks[c]) : tasks[c][i] \in Settled]_vars
  /\ [][\A c \in Calls :
          (calls[c].pc = "idle" /\ calls'[c].path = "split")
          => /\ Registered(c)'
             /\ FilterFilled(partitionResponses'[calls'[c].id]) = <<>>]_vars
  /\ [](\A c \in Calls :
          IsSplit(c)
          => \A j \in 1..Len(calls[c].coll) : calls[c].coll[j].from[1] = c)

\* The second call is a split under the id of the first call, which was a
\* split too and is over; it has merged a background response of its own.
C17_Witness ==
  \E c, d \in Calls :
    /\ d < c /\ calls[d].pc = "closed" /\ calls[d].limit >= 1
    /\ calls[c].id = FirstId
    /\ IsSplit(c) /\ HasReturned(c) /\ Len(calls[c].coll) >= 1
    /\ calls[c].coll[1].from[1] = c

\* C18. The two maps stay in step: in every state between two steps of the
\* hooks, an operation id has an array of slots exactly if it has a join
\* handle; beforeRequest makes both entries in one step and the clear
\* removes both in one step.
C18_MapsInStep ==
  /\ [](\A id \in OpIds :
          id \in DOMAIN partitionResponses <=> id \in DOMAIN partitionRequests)
  /\ [][\A id \in OpIds :
          /\ (id \notin DOMAIN partitionRequests
               /\ id \in DOMAIN partitionRequests')
              => (id \notin DOMAIN partitionResponses
                  /\ id \in DOMAIN partitionResponses')
          /\ (id \in DOMAIN partitionRequests
               /\ id \notin DOMAIN partitionRequests')
              => (id \in DOMAIN partitionResponses
                  /\ id \notin DOMAIN partitionResponses')]_vars

\* Two operations were registered and one of them has been cleared by the
\* afterError of its call: the other id has both entries, this one none.
C18_Witness ==
  \E c, d \in Calls :
    /\ IsSplit(c) /\ HasReturned(c) /\ FinalFailed(c)
    /\ ~HasState(calls[c].id)
    /\ IsSplit(d) /\ InFlight(d) /\ Registered(d)
    /\ DOMAIN partitionResponses = {calls[d].id}
    /\ DOMAIN partitionRequests = {calls[d].id}

\* C19. Overlapping calls under one id: also when a split call runs its
\* beforeRequest under the id of a split call that has not been cleared,
\* the response a split call returns holds elements of its own pages only,
\* and, its final page answered, the elements of each of its background
\* pages that was answered 200.
C19_OverlapKeepsOwn ==
  \A c \in Calls :
    (IsSplit(c) /\ HasReturned(c) /\ PageCount(c) >= 1)
    => /\ \A j \in 1..Len(calls[c].out.response.body.items) :
            ElementCall(calls[c].out.response.body.items[j]) = c
       /\ FinalSucceeded(c)
            => \A i \in 1..Len(tasks[c]) :
                 tasks[c][i] = "ok"
                 => \E j \in 1..Len(calls[c].out.response.body.items) :
                      calls[c].out.response.body.items[j] = Obj(<<c, i, 1>>)
====
